---------------------------- MODULE Spec2Model ----------------------------
(***************************************************************************)
(* Model of detector.py: the PIIDetector engine (standalone and            *)
(* combinatorial detection, field redaction, record orchestration) and the *)
(* row loop of main.                                                       *)
(*                                                                         *)
(* Text is a sequence of one-character strings.  A JSON primitive is a     *)
(* record [t, s]: t is its Python type ("str", "int", "bool", "NoneType")  *)
(* and s the characters that determine it (the text of a str, the decimal  *)
(* digits of an int, "1"/"0" for a bool).  A raised exception is a value   *)
(* whose t is the exception's class name.  A dict is a sequence of items   *)
(* [k, v] with distinct keys, in insertion order.  A payload (the text of  *)
(* the data_json column) is a sequence of JSON tokens.                     *)
(***************************************************************************)
EXTENDS Integers, Sequences, FiniteSets, TLC

VARIABLES
    rows,           \* main: the rows csv.DictReader yields, in file order
    idx,            \* main: number of rows the for loop has taken
    pc,             \* main: position in main ("idle" outside a run of main)
    record_id,      \* main: local record_id
    data_json,      \* main: local data_json; also process_record's argument
    redacted_json,  \* main: local redacted_json
    is_pii,         \* main: local is_pii
    outfile,        \* main: the rows written to redacted_output.csv
    log,            \* main: what process_record returned for each row so far
    exc,            \* main: the exception that ended the run ("" if none)
    fn,             \* direct call: the method called ("" in a run of main)
    key,            \* direct call: argument key
    value,          \* direct call: argument value
    data,           \* direct call: argument data (a dict)
    ret             \* direct call: the outcome, once the call has ended

vars == <<rows, idx, pc, record_id, data_json, redacted_json, is_pii, outfile,
          log, exc, fn, key, value, data, ret>>

---------------------------------------------------------------------------
(* Bounds of the model.                                                    *)

MaxRows == 3

MaxFields == 3

MaxRun == 13

---------------------------------------------------------------------------
(* Characters and the regular-expression classes.                          *)

DigitSeq == <<"0", "1", "2", "3", "4", "5", "6", "7", "8", "9">>

UpperSeq == <<"A", "B", "C", "D", "E", "F", "G", "H", "I", "J", "K", "L", "M", "N", "O", "P", "Q", "R", "S", "T", "U", "V", "W", "X", "Y", "Z">>

LowerSeq == <<"a", "b", "c", "d", "e", "f", "g", "h", "i", "j", "k", "l", "m", "n", "o", "p", "q", "r", "s", "t", "u", "v", "w", "x", "y", "z">>

Range(f) == {f[i] : i \in DOMAIN f}

Digit == Range(DigitSeq)

Upper == Range(UpperSeq)

Word == Digit \cup Upper \cup Range(LowerSeq) \cup {"_"}

HandleChar == Word \cup {".", "-"}

Whitespace == {" ", "\t", "\n", "\r"}

Min(a, b) == IF a < b THEN a ELSE b

Max(a, b) == IF a > b THEN a ELSE b

AllIn(s, i, j, C) == \A k \in i..j : s[k] \in C

IsWordAt(s, i) == i >= 1 /\ i <= Len(s) /\ s[i] \in Word

\* \b between s[i] and s[i+1] (i = 0: the start, i = Len(s): the end)
Boundary(s, i) == IsWordAt(s, i) # IsWordAt(s, i + 1)

---------------------------------------------------------------------------
(* The compiled patterns, as searches.                                     *)

PhoneDigits == 10

AadharDigits == 12

PassportDigits == 7

PinDigits == 6

\* the positions i where \b\d{n}\b matches s[i .. i+n-1]
DigitTokenAt(s, n) ==
    {i \in 1..(Len(s) - n + 1) :
        Boundary(s, i - 1) /\ AllIn(s, i, i + n - 1, Digit) /\ Boundary(s, i + n - 1)}

phone_pattern_no_end_boundary(s) ==
    \E i \in 1..(Len(s) - PhoneDigits + 1) :
        Boundary(s, i - 1) /\ AllIn(s, i, i + PhoneDigits - 1, Digit)

phone_pattern(s) == DigitTokenAt(s, PhoneDigits) # {}

aadhar_pattern(s) == DigitTokenAt(s, AadharDigits) # {}

passport_pattern(s) ==
    \E i \in 1..(Len(s) - PassportDigits) :
        /\ Boundary(s, i - 1)
        /\ s[i] \in Upper
        /\ AllIn(s, i + 1, i + PassportDigits, Digit)
        /\ Boundary(s, i + PassportDigits)

AtSigns(s) == {a \in 1..Len(s) : s[a] = "@"}

\* \b[\w\.-]+@[\w\.-]+\.\w+\b : p..a-1 the local part, a the "@", d the dot
\* the pattern's \. takes, e the last character
upi_generic(s) ==
    \E a \in AtSigns(s) :
        \E d \in {x \in (a + 2)..(Len(s) - 1) : s[x] = "."} :
            /\ AllIn(s, a + 1, d - 1, HandleChar)
            /\ \E p \in 1..(a - 1) :
                   Boundary(s, p - 1) /\ AllIn(s, p, a - 1, HandleChar)
            /\ \E e \in (d + 1)..Len(s) :
                   AllIn(s, d + 1, e, Word) /\ Boundary(s, e)

\* \b\d{10}@\w+\b
upi_numeric(s) ==
    \E a \in AtSigns(s) :
        /\ a > PhoneDigits
        /\ Boundary(s, a - PhoneDigits - 1)
        /\ AllIn(s, a - PhoneDigits, a - 1, Digit)
        /\ \E e \in (a + 1)..Len(s) :
               AllIn(s, a + 1, e, Word) /\ Boundary(s, e)

upi_pattern(s) == upi_generic(s) \/ upi_numeric(s)

---------------------------------------------------------------------------
(* Values and the string operations the engine uses.                       *)

StrV(s) == [t |-> "str", s |-> s]

IntV(s) == [t |-> "int", s |-> s]

BoolV(b) == [t |-> "bool", s |-> IF b THEN <<"1">> ELSE <<"0">>]

None == [t |-> "NoneType", s |-> <<>>]

Raised(e) == [t |-> e, s |-> <<>>]

isinstance_str(v) == v.t = "str"

IsException(v) == v.t \in {"IndexError", "AttributeError", "JSONDecodeError"}

\* str(value): the text the standalone detector is given
str(v) ==
    CASE v.t = "str" -> v
      [] v.t = "int" -> StrV(v.s)
      [] v.t = "bool" -> StrV(IF v.s = <<"1">> THEN <<"T", "r", "u", "e">> ELSE <<"F", "a", "l", "s", "e">>)
      [] OTHER -> StrV(<<"N", "o", "n", "e">>)

Contains(s, sub) ==
    \E i \in 0..(Len(s) - Len(sub)) : SubSeq(s, i + 1, i + Len(sub)) = sub

IndexOf(f, c) == CHOOSE i \in DOMAIN f : f[i] = c

lower(s) ==
    [i \in 1..Len(s) |->
        IF s[i] \in Upper THEN LowerSeq[IndexOf(UpperSeq, s[i])] ELSE s[i]]

\* s.split(): the maximal runs of non-whitespace characters
RECURSIVE SplitFrom(_, _, _)
SplitFrom(s, i, cur) ==
    IF i > Len(s)
    THEN IF cur = <<>> THEN <<>> ELSE <<cur>>
    ELSE IF s[i] \in Whitespace
         THEN (IF cur = <<>> THEN <<>> ELSE <<cur>>) \o SplitFrom(s, i + 1, <<>>)
         ELSE SplitFrom(s, i + 1, Append(cur, s[i]))

split(s) == SplitFrom(s, 1, <<>>)

\* s[:n] and s[-n:]
Prefix(s, n) == SubSeq(s, 1, Min(n, Len(s)))

Suffix(s, n) == SubSeq(s, Max(1, Len(s) - n + 1), Len(s))

\* s.split('@', 1) of a text that holds an "@"
FirstAt(s) == CHOOSE a \in AtSigns(s) : \A b \in AtSigns(s) : a <= b

Username(s) == SubSeq(s, 1, FirstAt(s) - 1)

DomainPart(s) == SubSeq(s, FirstAt(s) + 1, Len(s))

AddressTerms == {<<"r", "o", "a", "d">>, <<"s", "t", "r", "e", "e", "t">>, <<"l", "a", "n", "e">>, <<"a", "v", "e", "n", "u", "e">>, <<"n", "a", "g", "a", "r">>}

---------------------------------------------------------------------------
(* PIIDetector.detect_standalone_pii                                        *)

detect_standalone_pii(v) ==
    /\ isinstance_str(v)
    /\ \/ phone_pattern(v.s)
       \/ aadhar_pattern(v.s)
       \/ passport_pattern(v.s)
       \/ upi_pattern(v.s)

---------------------------------------------------------------------------
(* PIIDetector.detect_combinatorial_pii                                     *)

Threshold == 2

NoFlags == [name |-> FALSE, email |-> FALSE, address |-> FALSE, device_ip |-> FALSE]

\* one iteration of the loop over data.items()
flag_item(flags, item) ==
    IF ~isinstance_str(item.v)
    THEN flags
    ELSE [name |-> flags.name
                   \/ (item.k = "name" /\ Contains(item.v.s, <<" ">>)
                       /\ Len(split(item.v.s)) >= 2),
          email |-> flags.email
                    \/ (item.k = "email" /\ Contains(item.v.s, <<"@">>)),
          address |-> flags.address
                      \/ (item.k = "address"
                          /\ \E term \in AddressTerms : Contains(lower(item.v.s), term)),
          device_ip |-> flags.device_ip \/ item.k \in {"device_id", "ip_address"}]

RECURSIVE combinatorial_flags_from(_, _, _)
combinatorial_flags_from(d, i, flags) ==
    IF i > Len(d) THEN flags
    ELSE combinatorial_flags_from(d, i + 1, flag_item(flags, d[i]))

combinatorial_flags(d) == combinatorial_flags_from(d, 1, NoFlags)

SumFlags(flags) ==
    (IF flags.name THEN 1 ELSE 0) + (IF flags.email THEN 1 ELSE 0)
    + (IF flags.address THEN 1 ELSE 0) + (IF flags.device_ip THEN 1 ELSE 0)

threshold_any(flags) == SumFlags(flags) >= 1

threshold(flags) == SumFlags(flags) >= Threshold

detect_combinatorial_pii(d) == threshold(combinatorial_flags(d))

---------------------------------------------------------------------------
(* PIIDetector.redact_value                                                 *)

Mask3 == <<"X", "X", "X">>

Mask6 == <<"X", "X", "X", "X", "X", "X">>

Mask7 == <<"X", "X", "X", "X", "X", "X", "X">>

RedactedAddress == <<"[", "R", "E", "D", "A", "C", "T", "E", "D", "_", "A", "D", "D", "R", "E", "S", "S", "]">>

FirstPin(s) == CHOOSE i \in DigitTokenAt(s, PinDigits) :
                   \A j \in DigitTokenAt(s, PinDigits) : i <= j

redact_handle(s) == StrV(Prefix(Username(s), 2) \o Mask3 \o <<"@">> \o DomainPart(s))

redact_name(s) ==
    LET parts == split(s) IN
    IF parts = <<>>
    THEN Raised("IndexError")
    ELSE StrV(<<parts[1][1]>> \o Mask3 \o <<" ">> \o <<parts[Len(parts)][1]>> \o Mask3)

redact_address(s) ==
    IF DigitTokenAt(s, PinDigits) # {}
    THEN StrV(RedactedAddress \o <<",", " ">>
             \o SubSeq(s, FirstPin(s), FirstPin(s) + PinDigits - 1))
    ELSE StrV(RedactedAddress)

redact_value(k, v) ==
    IF ~isinstance_str(v) THEN v
    ELSE IF k = "phone" /\ phone_pattern(v.s)
    THEN StrV(Prefix(v.s, 2) \o Mask6 \o Suffix(v.s, 2))
    ELSE IF k = "aadhar" /\ aadhar_pattern(v.s)
    THEN StrV(<<"X", "X", "X", "X", " ", "X", "X", "X", "X", " ">> \o Suffix(v.s, 4))
    ELSE IF k = "passport" /\ passport_pattern(v.s)
    THEN StrV(<<v.s[1]>> \o Mask7)
    ELSE IF k = "upi_id" /\ upi_pattern(v.s)
    THEN IF Contains(v.s, <<"@">>)
         THEN redact_handle(v.s)
         ELSE StrV(Prefix(v.s, 2) \o Mask6 \o Suffix(v.s, 4))
    ELSE IF k = "name" /\ Contains(v.s, <<" ">>)
    THEN redact_name(v.s)
    ELSE IF k = "email" /\ Contains(v.s, <<"@">>)
    THEN redact_handle(v.s)
    ELSE IF k = "address"
    THEN redact_address(v.s)
    ELSE v

---------------------------------------------------------------------------
(* Dicts, and json.loads / json.dumps over tokens.                          *)

Item(k, v) == [k |-> k, v |-> v]

Keys(d) == [i \in 1..Len(d) |-> d[i].k]

HasKey(d, k) == \E i \in 1..Len(d) : d[i].k = k

\* d[k] = v
DictSet(d, k, v) ==
    IF HasKey(d, k)
    THEN [i \in 1..Len(d) |-> IF d[i].k = k THEN Item(k, v) ELSE d[i]]
    ELSE Append(d, Item(k, v))

Tok(tok) == [tok |-> tok, k |-> "", v |-> None]

Pair(k, v) == [tok |-> "pair", k |-> k, v |-> v]

RECURSIVE ObjectFrom(_, _, _)
ObjectFrom(text, i, d) ==
    IF i >= Len(text) THEN d
    ELSE ObjectFrom(text, i + 1, DictSet(d, text[i].k, text[i].v))

\* json.loads: an object, an (empty) array, or JSONDecodeError
json_loads(text) ==
    IF /\ Len(text) >= 2
       /\ text[1].tok = "{"
       /\ text[Len(text)].tok = "}"
       /\ \A i \in 2..(Len(text) - 1) : text[i].tok = "pair"
    THEN [exc |-> "", type |-> "dict", items |-> ObjectFrom(text, 2, <<>>)]
    ELSE IF Len(text) = 2 /\ text[1].tok = "[" /\ text[2].tok = "]"
    THEN [exc |-> "", type |-> "list", items |-> <<>>]
    ELSE [exc |-> "JSONDecodeError", type |-> "", items |-> <<>>]

json_dumps(d) ==
    <<Tok("{")>> \o [i \in 1..Len(d) |-> Pair(d[i].k, d[i].v)] \o <<Tok("}")>>

---------------------------------------------------------------------------
(* PIIDetector.process_record                                               *)

Result(e, json, flag, consulted) ==
    [exc |-> e, json |-> json, flag |-> flag, consulted |-> consulted]

\* the except branch, with the handler missing
decode_failed_uncaught(text) == Result("JSONDecodeError", <<>>, FALSE, FALSE)

\* the except branch: the payload as it came, not flagged
decode_failed(text) == Result("", text, FALSE, FALSE)

\* the first loop with the detector given the value instead of its text
RECURSIVE standalone_pass_raw_from(_, _, _)
standalone_pass_raw_from(d, i, acc) ==
    IF i > Len(d) THEN acc
    ELSE standalone_pass_raw_from(d, i + 1,
             IF detect_standalone_pii(d[i].v)
             THEN [has_pii |-> TRUE,
                   redacted_data |-> DictSet(acc.redacted_data, d[i].k,
                                             redact_value(d[i].k, d[i].v))]
             ELSE [has_pii |-> acc.has_pii,
                   redacted_data |-> DictSet(acc.redacted_data, d[i].k, d[i].v)])

standalone_pass_raw(d) ==
    standalone_pass_raw_from(d, 1, [has_pii |-> FALSE, redacted_data |-> <<>>])

\* the first loop with the flag set and the value left as it was
RECURSIVE standalone_pass_unredacted_from(_, _, _)
standalone_pass_unredacted_from(d, i, acc) ==
    IF i > Len(d) THEN acc
    ELSE standalone_pass_unredacted_from(d, i + 1,
             [has_pii |-> acc.has_pii \/ detect_standalone_pii(str(d[i].v)),
              redacted_data |-> DictSet(acc.redacted_data, d[i].k, d[i].v)])

standalone_pass_unredacted(d) ==
    standalone_pass_unredacted_from(d, 1, [has_pii |-> FALSE, redacted_data |-> <<>>])

\* the first loop: for key, value in data.items()
RECURSIVE standalone_pass_from(_, _, _)
standalone_pass_from(d, i, acc) ==
    IF i > Len(d) THEN acc
    ELSE standalone_pass_from(d, i + 1,
             IF detect_standalone_pii(str(d[i].v))
             THEN [has_pii |-> TRUE,
                   redacted_data |-> DictSet(acc.redacted_data, d[i].k,
                                             redact_value(d[i].k, d[i].v))]
             ELSE [has_pii |-> acc.has_pii,
                   redacted_data |-> DictSet(acc.redacted_data, d[i].k, d[i].v)])

standalone_pass(d) ==
    standalone_pass_from(d, 1, [has_pii |-> FALSE, redacted_data |-> <<>>])

CombinatorialKeys == {"name", "email", "address", "device_id", "ip_address"}

\* the second loop keeping only the fields it redacts
RECURSIVE combinatorial_pass_only_from(_, _, _)
combinatorial_pass_only_from(d, i, acc) ==
    IF i > Len(d) THEN acc
    ELSE combinatorial_pass_only_from(d, i + 1,
             IF d[i].k \in CombinatorialKeys
             THEN DictSet(acc, d[i].k, redact_value(d[i].k, d[i].v))
             ELSE acc)

combinatorial_pass_only(d) == combinatorial_pass_only_from(d, 1, <<>>)

\* the second loop without the address field
RECURSIVE combinatorial_pass_no_address_from(_, _)
combinatorial_pass_no_address_from(d, i) ==
    IF i > Len(d) THEN d
    ELSE combinatorial_pass_no_address_from(
             IF d[i].k \in CombinatorialKeys \ {"address"}
             THEN DictSet(d, d[i].k, redact_value(d[i].k, d[i].v))
             ELSE d,
             i + 1)

combinatorial_pass_no_address(d) == combinatorial_pass_no_address_from(d, 1)

\* the second loop: for key, value in redacted_data.items()
RECURSIVE combinatorial_pass_from(_, _)
combinatorial_pass_from(d, i) ==
    IF i > Len(d) THEN d
    ELSE combinatorial_pass_from(
             IF d[i].k \in CombinatorialKeys
             THEN DictSet(d, d[i].k, redact_value(d[i].k, d[i].v))
             ELSE d,
             i + 1)

combinatorial_pass(d) == combinatorial_pass_from(d, 1)

\* the exception a redact_value call left in the dict, "" if none did
RaisedIn(d) ==
    IF \E i \in 1..Len(d) : IsException(d[i].v)
    THEN d[CHOOSE i \in 1..Len(d) :
               IsException(d[i].v) /\ \A j \in 1..(i - 1) : ~IsException(d[j].v)].v.t
    ELSE ""

process_record(id, text) ==
    LET loaded == json_loads(text) IN
    IF loaded.exc = "JSONDecodeError" THEN decode_failed(text)
    ELSE IF loaded.type # "dict" THEN Result("AttributeError", <<>>, FALSE, FALSE)
    ELSE LET first == standalone_pass(loaded.items)
             comb == ~first.has_pii /\ detect_combinatorial_pii(loaded.items)
             redacted_data == IF comb THEN combinatorial_pass(first.redacted_data)
                              ELSE first.redacted_data
         IN  IF RaisedIn(redacted_data) # ""
             THEN Result(RaisedIn(redacted_data), <<>>, FALSE, ~first.has_pii)
             ELSE Result("", json_dumps(redacted_data), first.has_pii \/ comb,
                         ~first.has_pii)

---------------------------------------------------------------------------
(* main: the loop over the rows of the input file.                          *)

DigitValue(c) == IndexOf(DigitSeq, c) - 1

\* int(row['record_id']) of a decimal text
RECURSIVE IntFrom(_, _, _)
IntFrom(s, i, acc) ==
    IF i > Len(s) THEN acc ELSE IntFrom(s, i + 1, acc * 10 + DigitValue(s[i]))

int(s) == IntFrom(s, 1, 0)

Row(id, text) == [record_id |-> id, data_json |-> text]

OutRow(id, json) == [record_id |-> id, redacted_data_json |-> json, is_pii |-> TRUE]

NoRet == [state |-> "pending", exc |-> "", flag |-> FALSE, val |-> None,
          json |-> <<>>, flags |-> NoFlags, consulted |-> FALSE]

ReadRow ==
    /\ pc = "iter"
    /\ idx < Len(rows)
    /\ idx' = idx + 1
    /\ record_id' = int(rows[idx + 1].record_id)
    /\ data_json' = rows[idx + 1].data_json
    /\ pc' = "call"
    /\ UNCHANGED <<rows, redacted_json, is_pii, outfile, log, exc, fn, key, value,
                   data, ret>>

ProcessRecordReturns ==
    /\ pc = "call"
    /\ LET r == process_record(record_id, data_json) IN
           /\ r.exc = ""
           /\ redacted_json' = r.json
           /\ is_pii' = r.flag
           /\ log' = Append(log, [json |-> r.json, flag |-> r.flag])
    /\ pc' = "ret"
    /\ UNCHANGED <<rows, idx, record_id, data_json, outfile, exc, fn, key, value,
                   data, ret>>

ProcessRecordRaises ==
    /\ pc = "call"
    /\ LET r == process_record(record_id, data_json) IN
           /\ r.exc # ""
           /\ exc' = r.exc
    /\ pc' = "crashed"
    /\ UNCHANGED <<rows, idx, record_id, data_json, redacted_json, is_pii, outfile,
                   log, fn, key, value, data, ret>>

WriteRow ==
    /\ pc = "ret"
    /\ is_pii
    /\ outfile' = Append(outfile, OutRow(record_id, redacted_json))
    /\ pc' = "iter"
    /\ UNCHANGED <<rows, idx, record_id, data_json, redacted_json, is_pii, log, exc,
                   fn, key, value, data, ret>>

SkipRow ==
    /\ pc = "ret"
    /\ ~is_pii
    /\ pc' = "iter"
    /\ UNCHANGED <<rows, idx, record_id, data_json, redacted_json, is_pii, outfile,
                   log, exc, fn, key, value, data, ret>>

Finish ==
    /\ pc = "iter"
    /\ idx = Len(rows)
    /\ pc' = "done"
    /\ UNCHANGED <<rows, idx, record_id, data_json, redacted_json, is_pii, outfile,
                   log, exc, fn, key, value, data, ret>>

---------------------------------------------------------------------------
(* The inputs.                                                              *)

V_phone == StrV(<<"9", "8", "7", "6", "5", "4", "3", "2", "1", "0">>)

V_phone_int == IntV(<<"9", "8", "7", "6", "5", "4", "3", "2", "1", "0">>)

V_city == StrV(<<"P", "u", "n", "e">>)

V_full_name == StrV(<<"J", "a", "n", "e", " ", "D", "o", "e">>)

V_three_names == StrV(<<"A", "n", "n", " ", "B", " ", "C", "o", "l", "e">>)

V_one_name == StrV(<<"J", "a", "n", "e">>)

V_blank == StrV(<<" ">>)

V_email == StrV(<<"j", "a", "n", "e", "@", "x", ".", "c", "o", "m">>)

V_email_short == StrV(<<"a", "@", "b">>)

V_address == StrV(<<"M", "G", " ", "R", "o", "a", "d", " ", "5", "6", "0", "0", "0", "1">>)

V_address_plain == StrV(<<"G", "o", "a">>)

V_device == StrV(<<"D", "1">>)

V_device_int == IntV(<<"7">>)

V_aadhar == StrV(<<"1", "2", "3", "4", "5", "6", "7", "8", "9", "0", "1", "2">>)

V_passport == StrV(<<"A", "1", "2", "3", "4", "5", "6", "7">>)

V_upi == StrV(<<"9", "8", "7", "6", "5", "4", "3", "2", "1", "0", "@", "u", "p", "i">>)

Values ==
    {V_phone, V_phone_int, V_city, V_full_name, V_three_names, V_one_name, V_blank,
     V_email, V_email_short, V_address, V_address_plain, V_device, V_device_int,
     V_aadhar, V_passport, V_upi, None, BoolV(TRUE)}

FieldNames ==
    {"phone", "aadhar", "passport", "upi_id", "name", "email", "address",
     "device_id", "ip_address", "city"}

\* the fields the payloads are built from
Fields ==
    {Pair("phone", V_phone), Pair("phone", V_phone_int), Pair("city", V_city),
     Pair("name", V_full_name), Pair("name", V_one_name), Pair("name", V_blank),
     Pair("email", V_email), Pair("email", V_email_short),
     Pair("address", V_address), Pair("address", V_address_plain),
     Pair("device_id", V_device), Pair("device_id", V_device_int),
     Pair("ip_address", None)}

FieldSeqs == UNION {[1..n -> Fields] : n \in 0..MaxFields}

Object(fs) == <<Tok("{")>> \o fs \o <<Tok("}")>>

Truncated(fs) == <<Tok("{")>> \o fs

EmptyArray == <<Tok("["), Tok("]")>>

\* whole objects, objects cut short before the closing brace, an array, no text
Payloads ==
    {Object(fs) : fs \in FieldSeqs}
    \cup {Truncated(fs) : fs \in {<<>>} \cup {<<f>> : f \in Fields}}
    \cup {EmptyArray, <<>>}

Dicts == {json_loads(Object(fs)).items : fs \in FieldSeqs}

RunDigit(i) == DigitSeq[(i % 10) + 1]

Run(n) == [i \in 1..n |-> RunDigit(i)]

Affixes ==
    {<<>>, <<"_">>, <<" ">>, <<"a">>, <<"A">>, <<"@">>, <<".">>, <<"-">>, <<"@", "u">>, <<",", " ">>}

StandaloneInputs ==
    {StrV(pre \o Run(n) \o suf) : pre \in Affixes, suf \in Affixes, n \in 0..MaxRun}
    \cup Values

MainRows ==
    {Row(<<"1">>, Object(<<Pair("phone", V_phone), Pair("city", V_city)>>)),
     Row(<<"2">>, Object(<<Pair("name", V_full_name), Pair("email", V_email_short)>>)),
     Row(<<"1", "3">>, Object(<<Pair("city", V_city)>>)),
     Row(<<"4">>, Truncated(<<Pair("phone", V_phone)>>)),
     Row(<<"5">>, EmptyArray),
     Row(<<"6">>, Object(<<Pair("name", V_blank), Pair("email", V_email_short),
                         Pair("device_id", V_device)>>))}

---------------------------------------------------------------------------
(* Spec: a run of main over an input file.                                  *)

Init ==
    /\ rows \in UNION {[1..n -> MainRows] : n \in 0..MaxRows}
    /\ idx = 0
    /\ pc = "iter"
    /\ record_id = 0
    /\ data_json = <<>>
    /\ redacted_json = <<>>
    /\ is_pii = FALSE
    /\ outfile = <<>>
    /\ log = <<>>
    /\ exc = ""
    /\ fn = ""
    /\ key = ""
    /\ value = None
    /\ data = <<>>
    /\ ret = NoRet

Next ==
    \/ ReadRow
    \/ ProcessRecordReturns
    \/ ProcessRecordRaises
    \/ WriteRow
    \/ SkipRow
    \/ Finish

Spec == Init /\ [][Next]_vars

---------------------------------------------------------------------------
(* SpecFn: one direct call of a method of PIIDetector.                      *)

Returned(r) == [r EXCEPT !.state = "returned"]

InitFn ==
    /\ rows = <<>>
    /\ idx = 0
    /\ pc = "idle"
    /\ record_id = 0
    /\ redacted_json = <<>>
    /\ is_pii = FALSE
    /\ outfile = <<>>
    /\ log = <<>>
    /\ exc = ""
    /\ ret = NoRet
    /\ \/ fn = "detect_standalone_pii" /\ value \in StandaloneInputs
          /\ key = "" /\ data = <<>> /\ data_json = <<>>
       \/ fn = "redact_value" /\ key \in FieldNames /\ value \in Values
          /\ data = <<>> /\ data_json = <<>>
       \/ fn = "detect_combinatorial_pii" /\ data \in Dicts
          /\ key = "" /\ value = None /\ data_json = <<>>
       \/ fn = "process_record" /\ data_json \in Payloads
          /\ key = "" /\ value = None /\ data = <<>>

Frame == UNCHANGED <<rows, idx, pc, record_id, data_json, redacted_json, is_pii,
                     outfile, log, exc, fn, key, value, data>>

CallDetectStandalone ==
    /\ fn = "detect_standalone_pii"
    /\ ret.state = "pending"
    /\ ret' = Returned([NoRet EXCEPT !.flag = detect_standalone_pii(value)])
    /\ Frame

CallDetectCombinatorial ==
    /\ fn = "detect_combinatorial_pii"
    /\ ret.state = "pending"
    /\ ret' = Returned([NoRet EXCEPT !.flag = detect_combinatorial_pii(data),
                                     !.flags = combinatorial_flags(data)])
    /\ Frame

CallRedactValue ==
    /\ fn = "redact_value"
    /\ ret.state = "pending"
    /\ LET v == redact_value(key, value) IN
           ret' = IF IsException(v)
                  THEN [NoRet EXCEPT !.state = "raised", !.exc = v.t]
                  ELSE Returned([NoRet EXCEPT !.val = v])
    /\ Frame

CallProcessRecord ==
    /\ fn = "process_record"
    /\ ret.state = "pending"
    /\ LET r == process_record(0, data_json) IN
           ret' = [NoRet EXCEPT !.state = IF r.exc = "" THEN "returned" ELSE "raised",
                                !.exc = r.exc, !.flag = r.flag, !.json = r.json,
                                !.consulted = r.consulted]
    /\ Frame

NextFn ==
    \/ CallDetectStandalone
    \/ CallDetectCombinatorial
    \/ CallRedactValue
    \/ CallProcessRecord

SpecFn == InitFn /\ [][NextFn]_vars

---------------------------------------------------------------------------
(* The properties.                                                          *)

Ended(f) == fn = f /\ ret.state # "pending"

ReturnedFrom(f) == fn = f /\ ret.state = "returned"

\* process_record has returned for a payload that decoded to a mapping
ReturnedForMapping ==
    /\ ReturnedFrom("process_record")
    /\ json_loads(data_json).exc = ""
    /\ json_loads(data_json).type = "dict"

InputMapping == json_loads(data_json).items

OutputMapping == json_loads(ret.json).items

AnyStandalone(d) == \E i \in 1..Len(d) : detect_standalone_pii(str(d[i].v))

Malformed(text) == json_loads(text).exc = "JSONDecodeError"

\* C1: the mapping process_record returns has the keys of the decoded input
\* mapping, in the same order, whichever detection path was taken.
Thm_C1 ==
    ReturnedForMapping =>
        /\ json_loads(ret.json).exc = ""
        /\ json_loads(ret.json).type = "dict"
        /\ Keys(OutputMapping) = Keys(InputMapping)

Wit_C1 ==
    /\ ReturnedForMapping
    /\ ret.flag
    /\ ret.consulted
    /\ Len(InputMapping) = 3
    /\ \E i \in 1..3 : InputMapping[i].k \notin CombinatorialKeys
    /\ \E i \in 1..3 : OutputMapping[i].v # InputMapping[i].v

\* C2: for a payload that does not decode, process_record returns the payload
\* as it came with the flag false, the run does not end at that row, and the
\* loop goes on (the row is skipped and the next iteration is enabled).
Thm_C2 ==
    /\ \A j \in 1..Len(log) :
           Malformed(rows[j].data_json) =>
               log[j].json = rows[j].data_json /\ ~log[j].flag
    /\ (pc = "crashed" => ~Malformed(data_json))
    /\ (pc = "call" /\ Malformed(data_json) =>
           ENABLED ProcessRecordReturns /\ ~ENABLED ProcessRecordRaises)
    /\ (pc = "ret" /\ Malformed(data_json) => ENABLED SkipRow /\ ~ENABLED WriteRow)
    /\ (pc = "iter" /\ idx < Len(rows) => ENABLED ReadRow)

Wit_C2 ==
    \E j \in 1..(Len(log) - 1) :
        /\ Malformed(rows[j].data_json)
        /\ log[j].json = rows[j].data_json
        /\ ~log[j].flag

\* C3: every call of detect_standalone_pii, detect_combinatorial_pii,
\* redact_value, and of process_record on a payload that decodes, returns.
Cex_C3 ==
    /\ Ended("detect_standalone_pii") => ret.state = "returned"
    /\ Ended("detect_combinatorial_pii") => ret.state = "returned"
    /\ Ended("redact_value") => ret.state = "returned"
    /\ (Ended("process_record") /\ ~Malformed(data_json)) => ret.state = "returned"

NameSignal(d) ==
    \E i \in 1..Len(d) :
        /\ d[i].k = "name"
        /\ isinstance_str(d[i].v)
        /\ " " \in Range(d[i].v.s)
        /\ \E a, b \in 1..Len(d[i].v.s) :
               /\ a < b
               /\ d[i].v.s[a] \notin Whitespace
               /\ d[i].v.s[b] \notin Whitespace
               /\ \E c \in (a + 1)..(b - 1) : d[i].v.s[c] \in Whitespace

EmailSignal(d) ==
    \E i \in 1..Len(d) :
        d[i].k = "email" /\ isinstance_str(d[i].v) /\ "@" \in Range(d[i].v.s)

AddressSignal(d) ==
    \E i \in 1..Len(d) :
        /\ d[i].k = "address"
        /\ isinstance_str(d[i].v)
        /\ \E term \in AddressTerms : Contains(lower(d[i].v.s), term)

\* the device_ip signal as the detector computes it: the key holds a string
DeviceSignal(d) ==
    \E i \in 1..Len(d) :
        d[i].k \in {"device_id", "ip_address"} /\ isinstance_str(d[i].v)

Signals(d) ==
    {s \in {"name", "email", "address", "device_ip"} :
        \/ s = "name" /\ NameSignal(d)
        \/ s = "email" /\ EmailSignal(d)
        \/ s = "address" /\ AddressSignal(d)
        \/ s = "device_ip" /\ DeviceSignal(d)}

Cex_C5 ==
    (/\ ReturnedFrom("detect_combinatorial_pii")
     /\ (HasKey(data, "device_id") \/ HasKey(data, "ip_address")))
        => ret.flags.device_ip

\* C6: the flag process_record returns is true iff the text of some field
\* value matches the standalone detector, or none does and the combinatorial
\* detector holds of the decoded mapping; the combinatorial detector is
\* consulted only when no field matched.
Thm_C6 ==
    ReturnedForMapping =>
        /\ ret.flag <=> \/ AnyStandalone(InputMapping)
                        \/ (~AnyStandalone(InputMapping)
                            /\ detect_combinatorial_pii(InputMapping))
        /\ ret.consulted <=> ~AnyStandalone(InputMapping)

Wit_C6 ==
    /\ ReturnedForMapping
    /\ \E i \in 1..Len(InputMapping) :
           ~isinstance_str(InputMapping[i].v)
           /\ detect_standalone_pii(str(InputMapping[i].v))
    /\ ret.flag
    /\ ~ret.consulted

Masked_phone == StrV(<<"9", "8", "X", "X", "X", "X", "X", "X", "1", "0">>)

\* C7: when some field triggers standalone detection, each field whose text
\* matches has the value redact_value gives for its name and original value
\* (a phone of '9876543210' becomes '98XXXXXX10'), and each other field keeps
\* its value.
Thm_C7 ==
    /\ (ReturnedForMapping /\ AnyStandalone(InputMapping)) =>
           /\ Len(OutputMapping) = Len(InputMapping)
           /\ \A i \in 1..Len(InputMapping) :
                  /\ OutputMapping[i].v =
                         IF detect_standalone_pii(str(InputMapping[i].v))
                         THEN redact_value(InputMapping[i].k, InputMapping[i].v)
                         ELSE InputMapping[i].v
                  /\ InputMapping[i] = Item("phone", V_phone) =>
                         OutputMapping[i].v = Masked_phone
    /\ (ReturnedFrom("redact_value") /\ key = "phone" /\ value = V_phone) =>
           ret.val = Masked_phone

Wit_C7 ==
    /\ ReturnedForMapping
    /\ InputMapping = <<Item("phone", V_phone), Item("city", V_city)>>
    /\ ret.flag
    /\ OutputMapping = <<Item("phone", Masked_phone), Item("city", V_city)>>

\* the rows main should have written: one per flagged record, in input order
RECURSIVE FlaggedRows(_)
FlaggedRows(j) ==
    IF j = 0 THEN <<>>
    ELSE FlaggedRows(j - 1)
         \o (IF log[j].flag
             THEN <<OutRow(int(rows[j].record_id), log[j].json)>>
             ELSE <<>>)

\* C8: over any sequence of input rows main classifies every row, and the rows
\* written are exactly the flagged records, in input order.
Cex_C8 ==
    pc \in {"done", "crashed"} =>
        /\ Len(log) = Len(rows)
        /\ outfile = FlaggedRows(Len(rows))

Alnum == Word \ {"_"}

\* s holds a run of exactly n digits with no character of class C next to it
HasRun(s, n, C) ==
    \E i \in 1..(Len(s) - n + 1) :
        /\ AllIn(s, i, i + n - 1, Digit)
        /\ (i > 1 => s[i - 1] \notin C)
        /\ (i + n <= Len(s) => s[i + n] \notin C)

IsDigitRun(s, n) == Len(s) = n /\ AllIn(s, 1, n, Digit)

\* C9 as stated: true for every string holding a run of exactly 10 digits not
\* next to another alphanumeric character, false for a run of exactly 9 or 11
\* digits, and no phone match inside a longer digit run.
Cex_C9 ==
    ReturnedFrom("detect_standalone_pii") /\ isinstance_str(value) =>
        /\ HasRun(value.s, PhoneDigits, Alnum) => ret.flag
        /\ (IsDigitRun(value.s, PhoneDigits - 1)
            \/ IsDigitRun(value.s, PhoneDigits + 1)) => ~ret.flag
        /\ (\E n \in (PhoneDigits + 1)..Len(value.s) : IsDigitRun(value.s, n)) =>
               ~phone_pattern(value.s)

\* C9 amended: true for every string holding a run of exactly 10 digits not
\* next to another word character (letter, digit or underscore), false for a
\* run of exactly 9 or 11 digits, and no phone match inside a longer digit run.
Thm_C9 ==
    ReturnedFrom("detect_standalone_pii") /\ isinstance_str(value) =>
        /\ HasRun(value.s, PhoneDigits, Word) => ret.flag
        /\ (IsDigitRun(value.s, PhoneDigits - 1)
            \/ IsDigitRun(value.s, PhoneDigits + 1)) => ~ret.flag
        /\ (\E n \in (PhoneDigits + 1)..Len(value.s) : IsDigitRun(value.s, n)) =>
               ~phone_pattern(value.s)

Wit_C9 ==
    /\ ReturnedFrom("detect_standalone_pii")
    /\ isinstance_str(value)
    /\ Len(value.s) > PhoneDigits
    /\ HasRun(value.s, PhoneDigits, Word)
    /\ ret.flag

\* C10: when no field triggers standalone detection and the combinatorial
\* detector holds, each field named name, email or address has the value
\* redact_value gives for its name and value, device_id and ip_address keep
\* their values, and so does every field of another name.
Thm_C10 ==
    (/\ ReturnedForMapping
     /\ ~AnyStandalone(InputMapping)
     /\ detect_combinatorial_pii(InputMapping)) =>
        /\ Len(OutputMapping) = Len(InputMapping)
        /\ \A i \in 1..Len(InputMapping) :
               OutputMapping[i].v =
                   IF InputMapping[i].k \in {"name", "email", "address"}
                   THEN redact_value(InputMapping[i].k, InputMapping[i].v)
                   ELSE InputMapping[i].v

Wit_C10 ==
    /\ ReturnedForMapping
    /\ ret.flag
    /\ ret.consulted
    /\ \E i, j, k \in 1..Len(InputMapping) :
           /\ InputMapping[i].k = "address"
           /\ OutputMapping[i].v # InputMapping[i].v
           /\ InputMapping[j].k = "device_id"
           /\ OutputMapping[j].v = InputMapping[j].v
           /\ InputMapping[k].k = "city"
           /\ OutputMapping[k].v = InputMapping[k].v

=============================================================================
